---- MODULE Spec2Model ----
(***************************************************************************)
(* Model of the paint-demo page: the Large Contentful Set kept by          *)
(* PerformanceMetricsTracker (src/metrics.js) and the timing collections   *)
(* kept by ImageLoader (src/unnamed/part_000), with the DisplayManager     *)
(* listener that receives the finalized results (src/display-manager.js).  *)
(*                                                                         *)
(* The two objects keep disjoint state.  SpecLCS drives the tracker with   *)
(* every paint event its callers can produce.  The image loader is driven  *)
(* by the browser's callbacks: SpecPaint runs the handlers that write the  *)
(* load and paint records (load, animation frame, timers, element timing), *)
(* SpecViewport those that write the viewport records, SpecDirect adds a   *)
(* further finalizeResults call, and SpecLoader runs all of them together. *)
(***************************************************************************)
EXTENDS Integers, Sequences, FiniteSets, TLC

VARIABLES
    lcsElements,      \* customMetrics.lcs.elements: entries in array order
    lcsLastPaintTime, \* customMetrics.lcs.lastPaintTime
    lcsLastCall,      \* history: the last call that changed the set
    tracked,          \* the elements of the page the tracker's scans reach
    customLCP,        \* customMetrics.customLCP
    paintEvents,      \* paintEvents.length, counted up to MaxLogged
    largestSeen,      \* history: the largest paint events since the reset
    webVitals,        \* the keys of metrics.webVitals
    webVitalsLcp,     \* metrics.webVitals.lcp
    navigationStartTime, \* window.navigationStartTime
    timeSource,       \* which source of the navigation start the browser has
    lastScan,         \* history: the last pass of checkForLargestElement
    products,         \* CONFIG.products.length
    instants,         \* the readings of performance.now() callbacks run at
    now,              \* performance.now(): ms since the time origin
    phase,            \* where the page is in ImageLoader.loadImages
    imageTypeValue,   \* this.imageType.value, the <select> the user sets
    loadType,         \* the type loadImages captured for this cycle
    startTime,        \* timingData.startTime
    imageLoadTimes,   \* timingData.imageLoadTimes
    paintDeltas,      \* timingData.paintDeltas
    viewportDeltas,   \* timingData.viewportDeltas
    img,              \* per image: progress of its load listeners
    pollers,          \* per image: the monitorPaintTime closure, if armed
    lowResRaf,        \* per image: the pending low-res animation frame
    finalizeTimer,    \* the setTimeout(finalizeResults, 1000), if armed
    resultsReady,     \* payloads emitted as 'resultsReady', as emitted
    firstSeen,        \* history: first intersecting observation per image,
                      \* and whether a later one followed
    detections,       \* history: what the detection paths reported per key
                      \* before the results were emitted
    recheckTimer,     \* the setTimeout of continueLoading (200 ms)
    emitCount,        \* number of 'resultsReady' emissions
    intersectionLog,  \* this.intersectionLog: debug entries, newest first
    intersectionCount,\* history: entries the observer callback has handled
    intersectionUpdate, \* the logs of the last 'intersectionUpdate' event
    monitors,         \* per image, the checkImageRender loop of
                      \* monitorProductImages
    cycle,            \* the number of loadImages() calls so far
    stale,            \* the callbacks still armed that an earlier cycle set up
    staleWrites       \* history: the callbacks of an earlier cycle that wrote
                      \* to, or finalized, the collections of the current one

lcsVars == <<lcsElements, lcsLastPaintTime, lcsLastCall, tracked, customLCP,
             paintEvents, largestSeen, webVitals, webVitalsLcp,
             navigationStartTime, timeSource, lastScan>>
\* What the page and the browser are for the whole of the page's life.
envVars == <<tracked, timeSource>>
loaderVars == <<products, instants, now, phase, imageTypeValue, loadType, startTime,
                imageLoadTimes, paintDeltas, viewportDeltas, img, pollers,
                lowResRaf, finalizeTimer, resultsReady, firstSeen,
                detections, recheckTimer, emitCount>>
logVars == <<intersectionLog, intersectionCount, intersectionUpdate>>
cycleVars == <<cycle, stale, staleWrites>>
extraVars == <<logVars, monitors, cycleVars>>
vars == <<lcsVars, loaderVars, extraVars>>

Range(s) == {s[i] : i \in 1..Len(s)}

Max(S) == CHOOSE m \in S : \A x \in S : x <= m

(***************************************************************************)
(* PerformanceMetricsTracker: the Large Contentful Set                     *)
(***************************************************************************)

\* Largest paint time of an event (ms, abstract instants).
MaxPaintTime == 2

PaintTimes == 1..MaxPaintTime

\* startTime above which the LCP observer ignores an entry.
LcpTimeLimit == 30000

\* startTime of a largest-contentful-paint entry: an ordinary paint time,
\* the limit and the first time past it.
LcpTimes == PaintTimes \cup {LcpTimeLimit, LcpTimeLimit + 1}

\* Areas in px^2 an element can measure, around the 0.8 cut-offs of 100
\* (80) and of 200 (160).
Areas == {0, 80, 85, 100, 200}

\* Areas a heading can measure: below the 0.8 cut-off of 100 and above
\* that of 80 (64), and as large as an image.
HeadingAreas == {0, 70, 100}

\* lcs.threshold = 0.8 as the fraction ThresholdNum / ThresholdDen.
ThresholdNum == 8
ThresholdDen == 10

\* The 1.5 multiplier of filterLargeElements as ContainerNum / ContainerDen.
ContainerNum == 3
ContainerDen == 2

\* The document: two product images inside one container (.product-item),
\* and a heading.
Elements == {"img1", "img2", "div1", "h2"}

\* The pages checked, by the elements the scans of the tracker reach: the
\* product grid, a product under a heading, and an image under a heading.
ProductPage == {"img1", "img2", "div1"}
HeadingPage == {"img1", "div1", "h2"}
BarePage == {"img1", "h2"}
SinglePage == {"img1"}
Pages == {ProductPage, HeadingPage, BarePage, SinglePage}

\* Number of paintEvents entries told apart.
MaxLogged == 1

tagName(e) ==
    IF e \in {"img1", "img2"} THEN "IMG"
    ELSE IF e = "div1" THEN "DIV" ELSE "H2"

\* element.querySelectorAll('img'), in document order.
imagesWithin(e) ==
    IF e # "div1" THEN <<>>
    ELSE IF "img2" \in tracked THEN <<"img1", "img2">> ELSE <<"img1">>

\* The forEach of findLargestImageWithin over images[i..], carrying
\* largestImage / largestArea. layout[i] is offsetWidth * offsetHeight.
RECURSIVE largestFrom(_, _, _, _, _)
largestFrom(images, layout, i, largestImage, largestArea) ==
    IF i > Len(images) THEN largestImage
    ELSE IF layout[images[i]] > largestArea
         THEN largestFrom(images, layout, i + 1, images[i], layout[images[i]])
         ELSE largestFrom(images, layout, i + 1, largestImage, largestArea)

\* findLargestImageWithin(element): the element itself when it is an IMG,
\* else the first image of strictly greatest positive area, else null.
findLargestImageWithin(e, layout) ==
    IF tagName(e) = "IMG" THEN e
    ELSE largestFrom(imagesWithin(e), layout, 1, "null", 0)

AreasOf(elems) == {elems[i].area : i \in 1..Len(elems)}
TimesOf(elems) == {elems[i].paintEvent.time : i \in 1..Len(elems)}

\* Mutant of findIndex: the element is looked up among the entries after
\* the first only.
findIndexAfterFirst(elems, e) ==
    IF \E i \in 2..Len(elems) : elems[i].element = e
    THEN CHOOSE i \in 2..Len(elems) :
            /\ elems[i].element = e
            /\ \A j \in 2..(i - 1) : elems[j].element # e
    ELSE 0

\* elements.findIndex(item => item.element === effectiveElement), 0 for -1.
findIndex(elems, e) ==
    IF \E i \in 1..Len(elems) : elems[i].element = e
    THEN CHOOSE i \in 1..Len(elems) :
            /\ elems[i].element = e
            /\ \A j \in 1..(i - 1) : elems[j].element # e
    ELSE 0

\* Mutant of meetsThreshold: half the largest area is enough.
meetsHalfThreshold(area, largestArea) == area * 2 >= largestArea

\* area >= largestArea * threshold
meetsThreshold(area, largestArea) ==
    area * ThresholdDen >= largestArea * ThresholdNum

\* Mutant of upsert: the entry is pushed without looking for the element.
upsertAlwaysPushes(elems, entry) == Append(elems, entry)

\* The upsert branch of updateLCS (area >= thresholdArea).
upsert(elems, entry) ==
    LET existingIndex == findIndex(elems, entry.element)
    IN IF existingIndex > 0
       THEN [elems EXCEPT ![existingIndex] = entry]
       ELSE Append(elems, entry)

\* Mutant of recompute: the set is not filtered against the new threshold.
recomputeKeepsAll(elems, area) == elems

\* Mutant of recompute: the threshold divides instead of multiplying.
recomputeInverted(elems, area) ==
    LET keep(item) == item.area * ThresholdNum >= area * ThresholdDen
    IN SelectSeq(elems, keep)

\* The recompute branch of updateLCS (area > largestArea).
recompute(elems, area) ==
    LET keep(item) == meetsThreshold(item.area, area)
    IN SelectSeq(elems, keep)

\* The head of updateLCS: the effective element and its area.  rectArea is
\* paintEvent.area, layout the images' offset areas.
effective(element, rectArea, layout) ==
    LET largestImage == findLargestImageWithin(element, layout)
    IN IF largestImage # "null"
       THEN [element |-> largestImage, area |-> layout[largestImage]]
       ELSE [element |-> element, area |-> rectArea]

\* customMetrics.customLCP before any paint event.
NoLCP == [set |-> FALSE, size |-> 0, value |-> 0, element |-> "null"]

\* Mutant of updateCustomLCP: an event of equal area replaces the metric.
updateCustomLCPOnTie(lcp, element, rectArea, time) ==
    IF ~lcp.set \/ rectArea >= lcp.size
    THEN [set |-> TRUE, size |-> rectArea, value |-> time,
          element |-> tagName(element)]
    ELSE lcp

\* updateCustomLCP(element, paintEvent): the new customLCP.
updateCustomLCP(lcp, element, rectArea, time) ==
    IF ~lcp.set \/ rectArea > lcp.size
    THEN [set |-> TRUE, size |-> rectArea, value |-> time,
          element |-> tagName(element)]
    ELSE lcp

\* No paint event since the reset.
NoneSeen == [any |-> FALSE, area |-> 0, time |-> 0, element |-> "null",
             effectiveArea |-> 0]

\* The history after one more paint event: the largest rect area with the
\* time and tag of the first event that had it, and the largest effective
\* area updateLCS was given.
noteEvent(h, element, rectArea, time, effectiveArea) ==
    [any |-> TRUE,
     area |-> IF rectArea > h.area THEN rectArea ELSE h.area,
     time |-> IF ~h.any \/ rectArea > h.area THEN time ELSE h.time,
     element |-> IF ~h.any \/ rectArea > h.area THEN tagName(element)
                 ELSE h.element,
     effectiveArea |-> IF effectiveArea > h.effectiveArea THEN effectiveArea
                       ELSE h.effectiveArea]

\* updateLCS emits 'lcsUpdate' at its end; the first insertion returns
\* before it.
emitsLcsUpdate(elems) == Len(elems) # 0

\* updateLCS(element, paintEvent): the new <<elements, lastPaintTime>>.
updateLCS(elems, last, element, rectArea, time, layout) ==
    LET effectiveElement == effective(element, rectArea, layout).element
        area == effective(element, rectArea, layout).area
        entry == [element |-> effectiveElement,
                  paintEvent |-> [time |-> time],
                  area |-> area]
    IN IF Len(elems) = 0
       THEN <<<<entry>>, time>>
       ELSE
         LET largestArea == Max(AreasOf(elems))
             qualifies == meetsThreshold(area, largestArea)
             elems1 == IF qualifies THEN upsert(elems, entry) ELSE elems
             last1 == IF qualifies /\ time > last THEN time ELSE last
             elems2 == IF area > largestArea THEN recompute(elems1, area)
                       ELSE elems1
             last2 == IF area > largestArea /\ Len(elems2) > 0
                      THEN Max(TimesOf(elems2))
                      ELSE last1
         IN <<elems2, last2>>

\* filterLargeElements(): the new <<elements, lastPaintTime>>.
filterLargeElements(elems, last) ==
    LET hasDivs == \E i \in 1..Len(elems) : tagName(elems[i].element) = "DIV"
        hasImages == \E i \in 1..Len(elems) : tagName(elems[i].element) = "IMG"
        isImage(item) == tagName(item.element) = "IMG"
        imageElements == SelectSeq(elems, isImage)
    IN IF Len(elems) > 0 /\ hasDivs /\ hasImages /\ Len(imageElements) > 0
       THEN
         LET largestImageArea == Max(AreasOf(imageElements))
             keep(item) ==
                \/ tagName(item.element) = "IMG"
                \/ item.area * ContainerDen > largestImageArea * ContainerNum
             kept == SelectSeq(elems, keep)
         IN <<kept, IF Len(kept) > 0 THEN Max(TimesOf(kept)) ELSE last>>
       ELSE <<elems, last>>

\* The images' offsetWidth * offsetHeight as far as updateLCS reads them.
Layouts(e) ==
    IF tagName(e) = "IMG" THEN [{e} -> Areas]
    ELSE [Range(imagesWithin(e)) -> Areas]

\* getBoundingClientRect() of the element.  updateLCS reads paintEvent.area
\* only when it finds no sized image; where it finds one, the sample takes
\* the element's box to be that image's.
RectAreas(e, layout) ==
    LET largestImage == findLargestImageWithin(e, layout)
    IN IF largestImage # "null" THEN {layout[largestImage]}
       ELSE IF tagName(e) = "H2" THEN HeadingAreas
       ELSE Areas

NoCall == [op |-> "none", element |-> "null", area |-> 0, dropped |-> 0,
           lcsUpdate |-> FALSE]

\* Date.now() at the time origin of the page, in ms of the epoch.
TimeOrigin == 1000000

\* The offset of the last fallback of getNavigationStartTime.
NavigationFallbackOffset == 100

TimeSources == {"timeOrigin", "navigationStart", "dateNow"}

\* getNavigationStartTime(): performance.timeOrigin, else
\* performance.timing.navigationStart, else Date.now() - 100.  Date.now()
\* is the time origin plus performance.now().
getNavigationStartTime ==
    IF timeSource = "timeOrigin" THEN TimeOrigin
    ELSE IF timeSource = "navigationStart" THEN TimeOrigin
    ELSE TimeOrigin + now - NavigationFallbackOffset

\* metrics.webVitals.lcp before any entry or scan.
NoVital == [set |-> FALSE, value |-> 0, element |-> "none",
            elementId |-> "null", method |-> "none"]

\* The constructor's metrics and customMetrics.
MetricsInit ==
    /\ lcsElements = <<>>
    /\ lcsLastPaintTime = 0
    /\ lcsLastCall = NoCall
    /\ tracked \in Pages
    /\ customLCP = NoLCP
    /\ paintEvents = 0
    /\ largestSeen = NoneSeen
    /\ webVitals = {}
    /\ webVitalsLcp = NoVital
    /\ lastScan = "none"

\* The tracker after its constructor's init(), in a browser that has
\* performance.timeOrigin.
LcsInit ==
    /\ MetricsInit
    /\ timeSource = "timeOrigin"
    /\ navigationStartTime = getNavigationStartTime

\* updateLCS(element, paintEvent) as a step on the set: the rect area and
\* the layout are what the DOM reports at the call.
updateLCSCall(e, rectArea, time, layout) ==
    \E eff \in {effective(e, rectArea, layout)} :
      \E r \in {updateLCS(lcsElements, lcsLastPaintTime, e, rectArea,
                          time, layout)} :
        LET others(elems) ==
                Cardinality({i \in 1..Len(elems) :
                                elems[i].element # eff.element})
        IN /\ lcsElements' = r[1]
           /\ lcsLastPaintTime' = r[2]
           /\ lcsLastCall' =
                IF r = <<lcsElements, lcsLastPaintTime>> THEN lcsLastCall
                ELSE [op |-> "updateLCS", element |-> eff.element,
                      area |-> eff.area,
                      dropped |-> others(lcsElements) - others(r[1]),
                      lcsUpdate |-> emitsLcsUpdate(lcsElements)]

\* recordPaintEvent(eventData) for an element and a time: the event is
\* logged, then updateCustomLCP and updateLCS run.
recordPaintEventAt(e, time, layout, rectArea) ==
    /\ paintEvents' = IF paintEvents < MaxLogged
                      THEN paintEvents + 1 ELSE paintEvents
    /\ customLCP' = updateCustomLCP(customLCP, e, rectArea, time)
    /\ largestSeen' = noteEvent(largestSeen, e, rectArea, time,
                         effective(e, rectArea, layout).area)
    /\ updateLCSCall(e, rectArea, time, layout)

\* The same, whatever the DOM reports for the element at the call.
recordPaintEvent(e, time) ==
    \E layout \in Layouts(e) : \E rectArea \in RectAreas(e, layout) :
        recordPaintEventAt(e, time, layout, rectArea)

\* updateLCS on its own: the tracker seen through its Large Contentful Set.
UpdateLCS ==
    /\ \E e \in tracked, time \in PaintTimes :
         \E layout \in Layouts(e) : \E rectArea \in RectAreas(e, layout) :
            updateLCSCall(e, rectArea, time, layout)
    /\ UNCHANGED <<envVars, lastScan, navigationStartTime, webVitalsLcp, customLCP, paintEvents, largestSeen, webVitals, loaderVars,
                   extraVars>>

\* A paint event reported by trackElementPaint, monitorProductImages or the
\* element-timing observer: the time is performance.now() or an entry's
\* renderTime / startTime.
RecordPaintEvent ==
    /\ \E e \in tracked, time \in PaintTimes : recordPaintEvent(e, time)
    /\ UNCHANGED <<envVars, lastScan, navigationStartTime, webVitalsLcp, webVitals, loaderVars, extraVars>>

\* The callback of observePaintTiming for first-contentful-paint.
ObservePaintTiming ==
    /\ webVitals' = webVitals \cup {"fcp"}
    /\ UNCHANGED <<lcsElements, lcsLastPaintTime, lcsLastCall, envVars,
                   lastScan, navigationStartTime, webVitalsLcp,
                   customLCP, paintEvents, largestSeen, loaderVars, extraVars>>

\* webVitals.lcp as the observer writes it for an entry: lastEntry.element
\* is null when the browser no longer has the element.
nativeLcp(e, time) ==
    [set |-> TRUE, value |-> time,
     element |-> IF e = "null" THEN "unknown" ELSE tagName(e),
     elementId |-> e, method |-> "native"]

\* The callback of observeLargestContentfulPaint for the last entry of a
\* batch: an entry later than the limit is ignored; otherwise
\* webVitals.lcp is written, and the paint event is recorded if the entry
\* has its element.
ObserveLargestContentfulPaint ==
    \E e \in tracked \cup {"null"}, time \in LcpTimes :
       IF time > LcpTimeLimit
       THEN UNCHANGED vars
       ELSE /\ webVitals' = webVitals \cup {"lcp"}
            /\ webVitalsLcp' = nativeLcp(e, time)
            /\ IF e # "null"
               THEN recordPaintEvent(e, time)
               ELSE UNCHANGED <<lcsElements, lcsLastPaintTime, lcsLastCall,
                                customLCP, paintEvents, largestSeen>>
            /\ UNCHANGED <<envVars, lastScan, navigationStartTime, loaderVars, extraVars>>

\* The candidates of checkForLargestElement, in the order of its array:
\* the img elements, the .product-image elements (the same images), the
\* .product-item containers.  The page has no h1 and no video.
candidates ==
    LET imgs == IF "img2" \in tracked THEN <<"img1", "img2">> ELSE <<"img1">>
    IN imgs \o imgs \o (IF "div1" \in tracked THEN <<"div1">> ELSE <<>>)

\* Mutant of needsFallback: a pass writes whatever webVitals.lcp holds.
needsFallbackAlways(vital) == TRUE

\* The test under which a pass writes webVitals.lcp.
needsFallback(vital) == ~vital.set \/ vital.element = "unknown"

\* webVitals.lcp as a pass of checkForLargestElement writes it.
fallbackLcp(e, time) ==
    [set |-> TRUE, value |-> time, element |-> tagName(e),
     elementId |-> e, method |-> "fallback"]

\* The element a candidate stands for, and its area: its largest sized
\* image if it has one, else itself.  rect gives the area of each
\* element's box.
candidateOf(el, rect) ==
    LET largestImage == findLargestImageWithin(el, rect)
    IN IF largestImage # "null"
       THEN [element |-> largestImage, area |-> rect[largestImage]]
       ELSE [element |-> el, area |-> rect[el]]

\* A candidate passes the tests of the loop body before the comparison of
\* areas: its own box is in the viewport, and the element it stands for,
\* if an image, is loaded (complete, with a natural width).
eligible(el, rect, inViewport, loaded) ==
    LET eff == candidateOf(el, rect).element
    IN /\ inViewport[el]
       /\ tagName(eff) = "IMG" => loaded[eff]

\* The forEach of checkForLargestElement over candidates[i..], carrying
\* largestSize and webVitals.lcp; time is performance.now() at the write.
RECURSIVE scanFrom(_, _, _, _, _, _, _, _)
scanFrom(cands, i, rect, inViewport, loaded, largestSize, vital, time) ==
    IF i > Len(cands) THEN vital
    ELSE LET el == cands[i]
             c == candidateOf(el, rect)
             larger == /\ eligible(el, rect, inViewport, loaded)
                       /\ c.area > largestSize
         IN scanFrom(cands, i + 1, rect, inViewport, loaded,
                     IF larger THEN c.area ELSE largestSize,
                     IF larger /\ needsFallback(vital)
                     THEN fallbackLcp(c.element, time) ELSE vital,
                     time)

checkForLargestElement(vital, rect, inViewport, loaded, time) ==
    scanFrom(candidates, 1, rect, inViewport, loaded, 0, vital, time)

\* offsetWidth * offsetHeight of the images updateLCS looks at for an
\* element, where rect gives the area of each element's box.
layoutIn(e, rect) ==
    CHOOSE layout \in Layouts(e) : \A x \in DOMAIN layout : layout[x] = rect[x]

\* What the DOM can report to a pass: the area of each element's box,
\* whether the box is in the viewport, whether each image is loaded.
Rects == [tracked -> Areas]
Viewports == [tracked -> BOOLEAN]
Loads == [{e \in tracked : tagName(e) = "IMG"} -> BOOLEAN]

\* One pass of checkForLargestElement, from a timer of initLCPFallback:
\* where it writes webVitals.lcp it also records the paint event of the
\* element it wrote.
CheckForLargestElement ==
    \E rect \in Rects, inViewport \in Viewports, loaded \in Loads,
       time \in PaintTimes :
      \E v \in {checkForLargestElement(webVitalsLcp, rect, inViewport,
                                        loaded, time)} :
        /\ webVitalsLcp' = v
        /\ lastScan' = IF needsFallback(webVitalsLcp) THEN "free"
                        ELSE "blocked"
        /\ IF v # webVitalsLcp
           THEN /\ webVitals' = webVitals \cup {"lcp"}
                /\ recordPaintEventAt(v.elementId, time,
                      layoutIn(v.elementId, rect), rect[v.elementId])
           ELSE UNCHANGED <<lcsElements, lcsLastPaintTime, lcsLastCall,
                            customLCP, paintEvents, largestSeen, webVitals>>
        /\ UNCHANGED <<envVars, navigationStartTime, loaderVars, extraVars>>

FilterLargeElements ==
    \E r \in {filterLargeElements(lcsElements, lcsLastPaintTime)} :
       /\ lcsElements' = r[1]
       /\ lcsLastPaintTime' = r[2]
       /\ lcsLastCall' =
            IF r = <<lcsElements, lcsLastPaintTime>> THEN lcsLastCall
            ELSE [NoCall EXCEPT !.op = "filterLargeElements",
                                !.dropped = Len(lcsElements) - Len(r[1]),
                                !.lcsUpdate = TRUE]
       /\ UNCHANGED <<envVars, lastScan, navigationStartTime, webVitalsLcp, customLCP, paintEvents, largestSeen, webVitals, loaderVars,
                   extraVars>>

\* reset(): metrics and customMetrics are rebuilt; paintEvents is left as
\* it is.  Its last statement is this.init(), which assigns
\* window.navigationStartTime again.
reset ==
    /\ lcsElements' = <<>>
    /\ lcsLastPaintTime' = 0
    /\ customLCP' = NoLCP
    /\ largestSeen' = NoneSeen
    /\ webVitals' = {}
    /\ webVitalsLcp' = NoVital
    /\ navigationStartTime' = getNavigationStartTime
    /\ lcsLastCall' = IF lcsElements = <<>> /\ lcsLastPaintTime = 0
                       THEN lcsLastCall
                       ELSE [NoCall EXCEPT !.op = "reset"]

TrackerReset ==
    /\ reset
    /\ UNCHANGED <<envVars, lastScan, paintEvents, loaderVars, extraVars>>

(***************************************************************************)
(* ImageLoader: load, paint and viewport records of one load cycle         *)
(***************************************************************************)

\* The product images, by data-index (CONFIG is not part of src/).
Images == 0..(products - 1)

\* A paint delta of this many ms or more is an anomaly.
PaintDeltaLimit == 10000

\* setTimeout delays (ms).
PollDelay == 50
HighResDelay == 500
FinalizeDelay == 1000
RecheckDelay == 200

\* The pages checked: one product with clock readings that give paint
\* deltas below the limit (9500), at the limit (10000: a load at 1500 in a
\* cycle started at 500, painted at 11500 or rendered at 11000) and above
\* it (10500, 11000); and two products with a delta below and one above.
Configs ==
    {[products |-> 1, instants |-> {500, 1500, 11000, 11500}],
     [products |-> 2, instants |-> {500, 11000}]}

\* Visible fraction of an image, in 1/1000.
VisibleFractions == {105}

ImageTypes == {"standard", "lowquality"}

NoResults ==
    [emitted |-> FALSE, imageType |-> "standard", loadTimes |-> <<>>,
     paintDeltas |-> <<>>, viewportDeltas |-> <<>>]

NoObservation ==
    [seen |-> FALSE, later |-> FALSE,
     record |-> [imageIndex |-> 0, viewportTime |-> 0, intersectionRatio |-> 0]]

\* A PaintRecord key.
Keys == Images \X {"standard", "low-res", "high-res"}

keyOf(item) == <<item.imageIndex, item.type>>

\* Math.round(x * 100) of a fraction given in 1/1000.
roundPercent(permille) == (permille + 5) \div 10

\* loadEntry.type || 'standard'
typeOrStandard(loadEntry) ==
    IF loadEntry.type = "undefined" THEN "standard" ELSE loadEntry.type

\* Mutant of findLoadEntry: the image index is not compared.
findLoadEntryOfAnyImage(loads, typeValue, imageIndex) ==
    LET matches(item) == typeValue # "standard" => item.type = "high-res"
        hits == {i \in 1..Len(loads) : matches(loads[i])}
    IN IF hits = {} THEN 0 ELSE CHOOSE i \in hits : \A j \in hits : i <= j

\* imageLoadTimes.find(...) of the element-timing observer: 0 when nothing
\* matches, else the position of the first match.
findLoadEntry(loads, typeValue, imageIndex) ==
    LET matches(item) ==
            /\ item.index = imageIndex
            /\ typeValue # "standard" => item.type = "high-res"
        hits == {i \in 1..Len(loads) : matches(loads[i])}
    IN IF hits = {} THEN 0 ELSE CHOOSE i \in hits : \A j \in hits : i <= j

\* paintDeltas.find(item => imageIndex === index && type === type)
hasDelta(deltas, index, type) ==
    \E i \in 1..Len(deltas) :
        deltas[i].imageIndex = index /\ deltas[i].type = type

\* paintDeltas.find(... && method === 'ElementTiming API' && ...)
hasElementTimingDelta(deltas, index, type) ==
    \E i \in 1..Len(deltas) :
        /\ deltas[i].imageIndex = index
        /\ deltas[i].method = "ElementTiming API"
        /\ deltas[i].type = type

paintRecord(index, loadTime, paintTime, method, type) ==
    [imageIndex |-> index, loadTime |-> loadTime, paintTime |-> paintTime,
     delta |-> paintTime - loadTime, method |-> method, type |-> type]

NoDetection ==
    [reported |-> FALSE, first |-> paintRecord(0, 0, 0, "none", "none"),
     polling |-> FALSE, elementTiming |-> FALSE, anomaly |-> FALSE]

\* The candidate is dropped at the source when its delta exceeds the limit.
exceedsLimit(delta) == delta > PaintDeltaLimit

\* History of the detections reported for a key before the results are
\* emitted.
noteDetection(det, item) ==
    LET k == keyOf(item)
        old == det[k]
    IN [det EXCEPT ![k] =
          [reported |-> TRUE,
           first |-> IF old.reported THEN old.first ELSE item,
           polling |-> old.polling
                       \/ (item.method = "requestAnimationFrame"
                           /\ item.delta < PaintDeltaLimit),
           elementTiming |-> old.elementTiming
                       \/ (item.method = "ElementTiming API"
                           /\ item.delta < PaintDeltaLimit),
           anomaly |-> old.anomaly \/ item.delta >= PaintDeltaLimit]]

\* The body of the element-timing observer's loop over entries[i..]: the
\* new <<paintDeltas, detections>>.  A delta above the limit returns from
\* the callback.
RECURSIVE elementTimingFrom(_, _, _, _, _, _)
elementTimingFrom(entries, i, loads, typeValue, deltas, det) ==
    IF i > Len(entries) THEN <<deltas, det>>
    ELSE
      LET entry == entries[i]
          at == findLoadEntry(loads, typeValue, entry.imageIndex)
      IN IF at = 0
         THEN elementTimingFrom(entries, i + 1, loads, typeValue, deltas, det)
         ELSE
           LET loadEntry == loads[at]
               item == paintRecord(entry.imageIndex, loadEntry.time,
                                   entry.paintTime, "ElementTiming API",
                                   typeOrStandard(loadEntry))
               det1 == noteDetection(det, item)
           IN IF exceedsLimit(item.delta) THEN <<deltas, det1>>
              ELSE IF hasElementTimingDelta(deltas, item.imageIndex, item.type)
              THEN elementTimingFrom(entries, i + 1, loads, typeValue,
                                     deltas, det1)
              ELSE elementTimingFrom(entries, i + 1, loads, typeValue,
                                     Append(deltas, item), det1)

\* Mutant of filterAnomalous: a delta at the limit is kept.
filterAnomalousInclusive(deltas) ==
    LET keep(item) == item.delta <= PaintDeltaLimit
    IN SelectSeq(deltas, keep)

\* finalizeResults: paintDeltas.filter(item => item.delta < 10000)
filterAnomalous(deltas) ==
    LET keep(item) == item.delta < PaintDeltaLimit
    IN SelectSeq(deltas, keep)

\* Mutant of uniqueFrom: the test on seenKeys is inverted, so the first
\* record of a key is skipped and the later ones are pushed.
RECURSIVE uniqueFromInverted(_, _, _, _)
uniqueFromInverted(items, i, seenKeys, uniquePaintDeltas) ==
    IF i > Len(items) THEN uniquePaintDeltas
    ELSE IF keyOf(items[i]) \in seenKeys
         THEN uniqueFromInverted(items, i + 1, seenKeys,
                                 Append(uniquePaintDeltas, items[i]))
         ELSE uniqueFromInverted(items, i + 1,
                                 seenKeys \cup {keyOf(items[i])},
                                 uniquePaintDeltas)

\* Mutant of uniqueFrom: a later record of a key replaces the earlier one.
RECURSIVE uniqueFromLastWins(_, _, _, _)
uniqueFromLastWins(items, i, seenKeys, uniquePaintDeltas) ==
    IF i > Len(items) THEN uniquePaintDeltas
    ELSE LET other(item) == keyOf(item) # keyOf(items[i])
         IN uniqueFromLastWins(items, i + 1,
                               seenKeys \cup {keyOf(items[i])},
                               Append(SelectSeq(uniquePaintDeltas, other),
                                      items[i]))

\* finalizeResults: the seenKeys loop over items[i..].
RECURSIVE uniqueFrom(_, _, _, _)
uniqueFrom(items, i, seenKeys, uniquePaintDeltas) ==
    IF i > Len(items) THEN uniquePaintDeltas
    ELSE IF keyOf(items[i]) \notin seenKeys
         THEN uniqueFrom(items, i + 1, seenKeys \cup {keyOf(items[i])},
                         Append(uniquePaintDeltas, items[i]))
         ELSE uniqueFrom(items, i + 1, seenKeys, uniquePaintDeltas)

\* Mutant of removeDuplicates: the list is emitted as filtered.
removeDuplicatesKeepsAll(deltas) == deltas

removeDuplicates(deltas) == uniqueFrom(deltas, 1, {}, <<>>)

\* The paintDeltas finalizeResults stores and emits.
finalizedPaintDeltas(deltas) == removeDuplicates(filterAnomalous(deltas))

\* The comparator of displayImageResults' in-place sort.
compareDeltas(a, b) ==
    IF a.imageIndex # b.imageIndex THEN a.imageIndex - b.imageIndex
    ELSE IF a.type = "low-res" THEN -1 ELSE 1

RECURSIVE insertSorted(_, _)
insertSorted(sorted, x) ==
    IF Len(sorted) = 0 THEN <<x>>
    ELSE IF compareDeltas(x, sorted[1]) < 0 THEN <<x>> \o sorted
         ELSE <<sorted[1]>> \o insertSorted(Tail(sorted), x)

RECURSIVE sortFrom(_, _, _)
sortFrom(items, i, sorted) ==
    IF i > Len(items) THEN sorted
    ELSE sortFrom(items, i + 1, insertSorted(sorted, items[i]))

\* results.paintDeltas.sort(...) of displayImageResults: the array is the
\* loader's own, sorted in place.  Finalized records have distinct keys,
\* on which the comparator is a total order.
displaySort(deltas) == sortFrom(deltas, 1, <<>>)

\* checkViewportStatus(element) for the images i.. in document order: the
\* new <<viewportDeltas, firstSeen>>.  geometry[i] tells whether image i
\* overlaps the viewport and which fraction of it is visible.
RECURSIVE checkViewportFrom(_, _, _, _, _)
checkViewportFrom(i, geometry, viewportTime, deltas, seen) ==
    IF i >= products THEN <<deltas, seen>>
    ELSE IF ~geometry[i].isInViewport
         THEN checkViewportFrom(i + 1, geometry, viewportTime, deltas, seen)
         ELSE
           LET record == [imageIndex |-> i, viewportTime |-> viewportTime,
                          intersectionRatio |->
                              roundPercent(geometry[i].visible) * 10]
               seen1 == IF seen[i].seen
                        THEN [seen EXCEPT ![i].later = TRUE]
                        ELSE [seen EXCEPT ![i] =
                                [seen |-> TRUE, later |-> FALSE,
                                 record |-> record]]
               recorded == \E j \in 1..Len(deltas) : deltas[j].imageIndex = i
           IN checkViewportFrom(i + 1, geometry, viewportTime,
                                IF recorded THEN deltas
                                ELSE Append(deltas, record),
                                seen1)

Geometries ==
    [Images -> {[isInViewport |-> FALSE, visible |-> 0]}
               \cup {[isInViewport |-> TRUE, visible |-> f] :
                        f \in VisibleFractions}]

idleImage == [st |-> "pending", due |-> 0]
\* stopped: the cycle-relative reading at which checkPaint gave up.
noPoller ==
    [st |-> "none", loadTime |-> 0, type |-> "standard", due |-> 0,
     stopped |-> 0]
noFrame == [pending |-> FALSE, loadTime |-> 0]
noTimer == [st |-> "none", due |-> 0]

\* Nothing is armed by an earlier cycle.
noStale ==
    [pollers |-> [i \in Images |-> noPoller],
     lowResRaf |-> [i \in Images |-> noFrame],
     highRes |-> [i \in Images |-> idleImage],
     finalizeTimer |-> noTimer]

\* since: the reading of the clock at which the loop started; rescheduled:
\* the reading at which it last asked for another frame.
noMonitor == [st |-> "none", since |-> 0, rescheduled |-> 0]

\* After `new ImageLoader()` and loadImages(): continueLoading is queued.
LoaderInitOn(configs) ==
    /\ \E c \in configs : products = c.products /\ instants = c.instants
    /\ now = 500
    /\ phase = "scheduled"
    /\ imageTypeValue \in ImageTypes
    /\ loadType = imageTypeValue
    /\ startTime = 0
    /\ imageLoadTimes = <<>>
    /\ paintDeltas = <<>>
    /\ viewportDeltas = <<>>
    /\ img = [i \in Images |-> idleImage]
    /\ pollers = [i \in Images |-> noPoller]
    /\ lowResRaf = [i \in Images |-> noFrame]
    /\ finalizeTimer = noTimer
    /\ resultsReady = NoResults
    /\ firstSeen = [i \in Images |-> NoObservation]
    /\ detections = [k \in Keys |-> NoDetection]
    /\ recheckTimer = noTimer
    /\ emitCount = 0
    /\ intersectionLog = <<>>
    /\ intersectionCount = 0
    /\ intersectionUpdate = <<>>
    /\ monitors = [i \in Images |-> noMonitor]
    /\ cycle = 1
    /\ stale = noStale
    /\ staleWrites = {}

LoaderInit == LoaderInitOn(Configs)

\* Time passes.
Tick ==
    /\ \E t \in instants : t > now /\ now' = t
    /\ UNCHANGED <<lcsVars, extraVars, products, instants, phase, imageTypeValue,
                   loadType, startTime,
                   imageLoadTimes, paintDeltas, viewportDeltas, img, pollers,
                   lowResRaf, finalizeTimer, resultsReady, firstSeen,
                   detections, recheckTimer, emitCount>>

\* The user picks another entry of the image-type <select> while
\* continueLoading is still queued: the cycle then runs with a selection
\* that differs from the type loadImages captured.
ChangeImageType ==
    /\ phase = "scheduled"
    /\ \E v \in ImageTypes : v # imageTypeValue /\ imageTypeValue' = v
    /\ UNCHANGED <<lcsVars, extraVars, products, instants, now, phase, loadType, startTime,
                   imageLoadTimes, paintDeltas, viewportDeltas, img, pollers,
                   lowResRaf, finalizeTimer, resultsReady, firstSeen,
                   detections, recheckTimer, emitCount>>

\* continueLoading(size, type), with the checkViewportStatus call that
\* setupStandardLoadListeners / setupLQIPLoadListeners make per image.
ContinueLoading ==
    /\ phase = "scheduled"
    /\ phase' = "loading"
    /\ startTime' = now
    /\ imageLoadTimes' = <<>>
    /\ paintDeltas' = <<>>
    /\ \E geometry \in Geometries :
         LET r == checkViewportFrom(0, geometry, now - startTime', <<>>,
                                    [i \in Images |-> NoObservation])
         IN /\ viewportDeltas' = r[1]
            /\ firstSeen' = r[2]
    /\ recheckTimer' = [st |-> "armed", due |-> now + RecheckDelay]
    /\ intersectionLog' = <<>>
    /\ UNCHANGED <<lcsVars, intersectionCount, intersectionUpdate, monitors,
                   cycleVars, products, instants, now, imageTypeValue, loadType, img, pollers,
                   lowResRaf, finalizeTimer, resultsReady, detections,
                   emitCount>>

\* Mutant of allImagesLoaded: the count is compared with one more than
\* the number of products.
oneMoreThanAllLoaded(loads) == Len(loads) = products + 1

\* Mutant of allImagesLoaded: one load is enough.
anyImageLoaded(loads) == Len(loads) >= 1

\* The completion check of the standard 'load' listener:
\* imageLoadTimes.length === CONFIG.products.length
allImagesLoaded(loads) == Len(loads) = products

\* The completion check of highResImage.onload:
\* imageLoadTimes.filter(item => item.type === 'high-res').length
\*     === CONFIG.products.length
allHighResLoaded(loads) ==
    LET isHighRes(item) == item.type = "high-res"
    IN Len(SelectSeq(loads, isHighRes)) = products

\* The 'load' listener of setupStandardLoadListeners for image i.
StandardLoad(i) ==
    /\ phase = "loading" /\ loadType = "standard"
    /\ img[i].st = "pending"
    /\ LET loadTime == now - startTime
       IN /\ imageLoadTimes' = Append(imageLoadTimes,
                [index |-> i, time |-> loadTime, type |-> "undefined"])
          /\ pollers' = [pollers EXCEPT ![i] =
                [st |-> "polling", loadTime |-> loadTime,
                 type |-> "standard", due |-> now + PollDelay,
                 stopped |-> 0]]
    /\ img' = [img EXCEPT ![i] = [st |-> "loaded", due |-> 0]]
    /\ finalizeTimer' =
         IF allImagesLoaded(imageLoadTimes')
         THEN [st |-> "armed", due |-> now + FinalizeDelay]
         ELSE finalizeTimer
    /\ UNCHANGED <<lcsVars, extraVars, products, instants, now, phase, imageTypeValue, loadType, startTime,
                   paintDeltas, viewportDeltas, lowResRaf, resultsReady,
                   firstSeen, detections, recheckTimer, emitCount>>

\* The 'error' listener: the failure is logged, nothing is recorded.
ImageError(i) ==
    /\ phase = "loading"
    /\ img[i].st = "pending"
    /\ img' = [img EXCEPT ![i] = [st |-> "error", due |-> 0]]
    /\ UNCHANGED <<lcsVars, extraVars, products, instants, now, phase, imageTypeValue, loadType, startTime,
                   imageLoadTimes, paintDeltas, viewportDeltas, pollers,
                   lowResRaf, finalizeTimer, resultsReady, firstSeen,
                   detections, recheckTimer, emitCount>>

\* onLowResLoad of setupLQIPLoadListeners for image i.
LowResLoad(i) ==
    /\ phase = "loading" /\ loadType # "standard"
    /\ img[i].st = "pending"
    /\ LET loadTime == now - startTime
       IN /\ imageLoadTimes' = Append(imageLoadTimes,
                [index |-> i, time |-> loadTime, type |-> "low-res"])
          /\ lowResRaf' = [lowResRaf EXCEPT ![i] =
                [pending |-> TRUE, loadTime |-> loadTime]]
    /\ img' = [img EXCEPT ![i] = [st |-> "lowres", due |-> now + HighResDelay]]
    /\ UNCHANGED <<lcsVars, extraVars, products, instants, now, phase, imageTypeValue, loadType, startTime,
                   paintDeltas, viewportDeltas, pollers, finalizeTimer,
                   resultsReady, firstSeen, detections, recheckTimer,
                   emitCount>>

\* The requestAnimationFrame callback of onLowResLoad: the record is pushed
\* without any check.
LowResFrame(i) ==
    /\ lowResRaf[i].pending
    /\ LET item == paintRecord(i, lowResRaf[i].loadTime, now - startTime,
                               "requestAnimationFrame", "low-res")
       IN /\ paintDeltas' = Append(paintDeltas, item)
          /\ detections' = IF resultsReady.emitted THEN detections
                          ELSE noteDetection(detections, item)
    /\ lowResRaf' = [lowResRaf EXCEPT ![i] = noFrame]
    /\ UNCHANGED <<lcsVars, extraVars, products, instants, now, phase, imageTypeValue, loadType, startTime,
                   imageLoadTimes, viewportDeltas, img, pollers,
                   finalizeTimer, resultsReady, firstSeen, recheckTimer,
                   emitCount>>

\* highResImage.onload, at least 500 ms after the low-res load.
HighResLoad(i) ==
    /\ img[i].st = "lowres" /\ now >= img[i].due
    /\ LET highResLoadTime == now - startTime
       IN /\ imageLoadTimes' = Append(imageLoadTimes,
                [index |-> i, time |-> highResLoadTime, type |-> "high-res"])
          /\ pollers' = [pollers EXCEPT ![i] =
                [st |-> "polling", loadTime |-> highResLoadTime,
                 type |-> "high-res", due |-> now + PollDelay,
                 stopped |-> 0]]
          /\ finalizeTimer' =
               IF allHighResLoaded(imageLoadTimes')
               THEN [st |-> "armed", due |-> now + FinalizeDelay]
               ELSE finalizeTimer
    /\ img' = [img EXCEPT ![i] = [st |-> "loaded", due |-> 0]]
    /\ UNCHANGED <<lcsVars, extraVars, products, instants, now, phase, imageTypeValue, loadType, startTime,
                   paintDeltas, viewportDeltas, lowResRaf, resultsReady,
                   firstSeen, detections, recheckTimer, emitCount>>

\* What checkPaint of monitorPaintTime does to paintDeltas once the paint
\* condition holds: nothing above the limit, nothing when the key is taken.
checkPaintDetected(deltas, item) ==
    IF exceedsLimit(item.delta) THEN deltas
    ELSE IF hasDelta(deltas, item.imageIndex, item.type) THEN deltas
    ELSE Append(deltas, item)

\* checkPaint keeps polling while less than 10000 ms of the cycle have passed.
keepsPolling(elapsed) == elapsed < PaintDeltaLimit

\* One animation frame of checkPaint for image i.  painted is the paint
\* condition (the size changed or naturalWidth > 0).
CheckPaint(i) ==
    /\ pollers[i].st = "polling" /\ now >= pollers[i].due
    /\ \E painted \in BOOLEAN :
         IF painted
         THEN LET item == paintRecord(i, pollers[i].loadTime, now - startTime,
                                      "requestAnimationFrame",
                                      pollers[i].type)
              IN /\ paintDeltas' = checkPaintDetected(paintDeltas, item)
                 /\ detections' = IF resultsReady.emitted THEN detections
                                 ELSE noteDetection(detections, item)
                 /\ pollers' = [pollers EXCEPT ![i] =
                                  [noPoller EXCEPT !.st = "done"]]
         ELSE /\ pollers' =
                   IF keepsPolling(now - startTime) THEN pollers
                   ELSE [pollers EXCEPT ![i] =
                           [pollers[i] EXCEPT !.st = "stopped", !.due = 0,
                                              !.stopped = now - startTime]]
              /\ UNCHANGED <<paintDeltas, detections>>
    /\ UNCHANGED <<lcsVars, extraVars, products, instants, now, phase, imageTypeValue, loadType, startTime,
                   imageLoadTimes, viewportDeltas, img, lowResRaf,
                   finalizeTimer, resultsReady, firstSeen, recheckTimer,
                   emitCount>>

\* An element-timing entry: the image of identifier product-image-(n+1) and
\* its renderTime || startTime, a reading of the page clock not after now.
TimingEntries ==
    {[imageIndex |-> i, paintTime |-> t] :
        i \in Images, t \in {u \in instants : u <= now}}

\* The batches entryList.getEntries() delivers: one entry or two.
TimingBatches ==
    {<<e>> : e \in TimingEntries}
        \cup {<<e1, e2>> : e1 \in TimingEntries, e2 \in TimingEntries}

\* The PerformanceObserver callback of setupElementTimingObserver.
ElementTiming ==
    /\ phase = "loading"
    /\ \E entries \in TimingBatches :
         \E r \in {elementTimingFrom(entries, 1, imageLoadTimes,
                                     imageTypeValue, paintDeltas, detections)} :
            /\ paintDeltas' = r[1]
            /\ detections' = IF resultsReady.emitted THEN detections ELSE r[2]
    /\ UNCHANGED <<lcsVars, extraVars, products, instants, now, phase, imageTypeValue, loadType, startTime,
                   imageLoadTimes, viewportDeltas, img, pollers, lowResRaf,
                   finalizeTimer, resultsReady, firstSeen, recheckTimer,
                   emitCount>>

\* Mutant of recordViewportEntry: an intersecting entry is pushed whether
\* or not the image has a record.
recordViewportEntryAlways(deltas, record, isIntersecting) ==
    IF isIntersecting THEN Append(deltas, record) ELSE deltas

\* What the IntersectionObserver callback does to viewportDeltas for one
\* entry.
recordViewportEntry(deltas, record, isIntersecting) ==
    IF isIntersecting
       /\ ~\E j \in 1..Len(deltas) : deltas[j].imageIndex = record.imageIndex
    THEN Append(deltas, record)
    ELSE deltas

\* The intersection log keeps this many entries.
LogLimit == 20

\* An 'intersectionUpdate' event carries this many entries.
UpdateLimit == 3

\* Largest number of entries the observer callback handles.
MaxCallbacks == 22

\* Mutant of logEntry: the oldest entry is never dropped.
logEntryUnbounded(log, entry) == <<entry>> \o log

\* intersectionLog.unshift(entryDebugInfo);
\* if (intersectionLog.length > 20) intersectionLog.pop();
logEntry(log, entry) ==
    LET unshifted == <<entry>> \o log
    IN IF Len(unshifted) > LogLimit
       THEN SubSeq(unshifted, 1, Len(unshifted) - 1)
       ELSE unshifted

\* intersectionLog.slice(0, 3)
updateLogs(log) ==
    IF Len(log) > UpdateLimit THEN SubSeq(log, 1, UpdateLimit) ELSE log

\* The IntersectionObserver callback for one entry (the callback handles
\* the entries of a batch one after the other, each on its own).  A log
\* entry is kept as the ordinal of the callback that logged it: the loader
\* never reads the fields of an entry.
Intersection(i) ==
    /\ phase = "loading"
    /\ intersectionCount < MaxCallbacks
    /\ intersectionCount' = intersectionCount + 1
    /\ intersectionLog' = logEntry(intersectionLog,
                              [seq |-> intersectionCount'])
    /\ intersectionUpdate' = updateLogs(intersectionLog')
    /\ \E isIntersecting \in BOOLEAN, ratio \in VisibleFractions :
         LET record == [imageIndex |-> i, viewportTime |-> now - startTime,
                        intersectionRatio |-> ratio]
         IN /\ viewportDeltas' =
                 recordViewportEntry(viewportDeltas, record, isIntersecting)
            /\ firstSeen' =
                 IF ~isIntersecting THEN firstSeen
                 ELSE IF firstSeen[i].seen
                 THEN [firstSeen EXCEPT ![i].later = TRUE]
                 ELSE [firstSeen EXCEPT ![i] =
                         [seen |-> TRUE, later |-> FALSE, record |-> record]]
    /\ UNCHANGED <<lcsVars, monitors, cycleVars, products, instants, now, phase, imageTypeValue, loadType, startTime,
                   imageLoadTimes, paintDeltas, img, pollers, lowResRaf,
                   finalizeTimer, resultsReady, detections, recheckTimer,
                   emitCount>>

\* checkViewportStatus over every .product-image, as the 200 ms timer of
\* continueLoading and the debounced resize handler run it.
checkAllImages ==
    \E geometry \in Geometries :
        \E r \in {checkViewportFrom(0, geometry, now - startTime,
                                    viewportDeltas, firstSeen)} :
           /\ viewportDeltas' = r[1]
           /\ firstSeen' = r[2]

ViewportRecheck ==
    /\ recheckTimer.st = "armed" /\ now >= recheckTimer.due
    /\ recheckTimer' = [st |-> "fired", due |-> 0]
    /\ checkAllImages
    /\ UNCHANGED <<lcsVars, extraVars, products, instants, now, phase, imageTypeValue, loadType, startTime,
                   imageLoadTimes, paintDeltas, img, pollers, lowResRaf,
                   finalizeTimer, resultsReady, detections, emitCount>>

WindowResize ==
    /\ phase = "loading"
    /\ checkAllImages
    /\ UNCHANGED <<lcsVars, extraVars, products, instants, now, phase, imageTypeValue, loadType, startTime,
                   imageLoadTimes, paintDeltas, img, pollers, lowResRaf,
                   finalizeTimer, resultsReady, detections, recheckTimer,
                   emitCount>>

\* finalizeResults(): filter, deduplicate, emit 'resultsReady'; the
\* DisplayManager listener then sorts the emitted paintDeltas array, which
\* is timingData.paintDeltas itself.
finalizeResults ==
    \E finalized \in {finalizedPaintDeltas(paintDeltas)} :
       /\ resultsReady' = [emitted |-> TRUE,
                           imageType |-> imageTypeValue,
                           loadTimes |-> imageLoadTimes,
                           paintDeltas |-> finalized,
                           viewportDeltas |-> viewportDeltas]
       /\ emitCount' = emitCount + 1
       /\ paintDeltas' = displaySort(finalized)

\* The timer armed by the last load fires.
FinalizeResults ==
    /\ finalizeTimer.st = "armed" /\ now >= finalizeTimer.due
    /\ finalizeTimer' = [st |-> "fired", due |-> 0]
    /\ finalizeResults
    /\ UNCHANGED <<lcsVars, extraVars, products, instants, now, phase, imageTypeValue, loadType, startTime,
                   imageLoadTimes, viewportDeltas, img, pollers, lowResRaf,
                   firstSeen, detections, recheckTimer>>

\* The clock reaches the instant the finalize timer is due at.
TimerTick ==
    /\ finalizeTimer.st = "armed" /\ now < finalizeTimer.due
    /\ now' = finalizeTimer.due
    /\ UNCHANGED <<lcsVars, extraVars, products, instants, phase, imageTypeValue,
                   loadType, startTime,
                   imageLoadTimes, paintDeltas, viewportDeltas, img, pollers,
                   lowResRaf, finalizeTimer, resultsReady, firstSeen,
                   detections, recheckTimer, emitCount>>

\* The .product-image element of product i.
imageElement(i) == IF i = 0 THEN "img1" ELSE "img2"

\* img.complete: the image is fully available or broken.
complete(i) == img[i].st \in {"loaded", "lowres", "error"}

\* img.naturalWidth > 0
hasNaturalWidth(i) == img[i].st \in {"loaded", "lowres"}

\* checkImageRender of monitorProductImages for image i, in a loop started
\* at since: the paint event is recorded, or another frame is asked for.
checkImageRender(i, since) ==
    IF complete(i) /\ hasNaturalWidth(i)
    THEN /\ \E time \in PaintTimes : recordPaintEvent(imageElement(i), time)
         /\ monitors' = [monitors EXCEPT ![i] = [noMonitor EXCEPT !.st = "done"]]
    ELSE /\ monitors' = [monitors EXCEPT ![i] =
                            [st |-> "looping", since |-> since,
                             rescheduled |-> now]]
         /\ UNCHANGED <<lcsElements, lcsLastPaintTime, lcsLastCall,
                        customLCP, paintEvents, largestSeen>>

\* monitorProductImages() for image i (the forEach handles the images one
\* after the other, each on its own).
MonitorProductImages(i) ==
    /\ phase = "loading"
    /\ monitors[i].st = "none"
    /\ IF complete(i)
       THEN checkImageRender(i, now)
       ELSE /\ monitors' = [monitors EXCEPT ![i] =
                               [noMonitor EXCEPT !.st = "waiting"]]
            /\ UNCHANGED <<lcsElements, lcsLastPaintTime, lcsLastCall,
                           customLCP, paintEvents, largestSeen>>
    /\ UNCHANGED <<envVars, lastScan, navigationStartTime, webVitalsLcp, webVitals, loaderVars, logVars, cycleVars>>

\* The 'load' listener monitorProductImages attached to image i: the load
\* is recorded, then checkImageRender records the loaded image again.
MonitorLoad(i) ==
    /\ monitors[i].st = "waiting"
    /\ hasNaturalWidth(i)
    /\ \E time \in PaintTimes :
         \E layout \in Layouts(imageElement(i)) :
           \E rectArea \in RectAreas(imageElement(i), layout) :
             LET e == imageElement(i)
                 eff == effective(e, rectArea, layout)
                 r1 == updateLCS(lcsElements, lcsLastPaintTime, e, rectArea,
                                 time, layout)
                 r2 == updateLCS(r1[1], r1[2], e, rectArea, time, layout)
                 lcp1 == updateCustomLCP(customLCP, e, rectArea, time)
                 others(elems) ==
                     Cardinality({k \in 1..Len(elems) :
                                     elems[k].element # eff.element})
             IN /\ paintEvents' = IF paintEvents + 2 <= MaxLogged
                                  THEN paintEvents + 2 ELSE MaxLogged
                /\ customLCP' = updateCustomLCP(lcp1, e, rectArea, time)
                /\ largestSeen' = noteEvent(largestSeen, e, rectArea, time, eff.area)
                /\ lcsElements' = r2[1]
                /\ lcsLastPaintTime' = r2[2]
                /\ lcsLastCall' =
                     IF r2 = <<lcsElements, lcsLastPaintTime>>
                     THEN lcsLastCall
                     ELSE [op |-> "updateLCS", element |-> eff.element,
                           area |-> eff.area,
                           dropped |-> others(lcsElements) - others(r2[1]),
                           lcsUpdate |-> emitsLcsUpdate(r1[1])]
    /\ monitors' = [monitors EXCEPT ![i] = [noMonitor EXCEPT !.st = "done"]]
    /\ UNCHANGED <<envVars, lastScan, navigationStartTime, webVitalsLcp, webVitals, loaderVars, logVars, cycleVars>>

\* The frame checkImageRender asked for.
CheckImageRender(i) ==
    /\ monitors[i].st = "looping"
    /\ checkImageRender(i, monitors[i].since)
    /\ UNCHANGED <<envVars, lastScan, navigationStartTime, webVitalsLcp, webVitals, loaderVars, logVars, cycleVars>>

\* Largest number of loadImages() calls.
MaxCycles == 2

\* loadImages() called again on window.imageLoader while a cycle is under
\* way: the container is emptied and the tracker reset, and
\* continueLoading is queued.  Nothing the running cycle armed is
\* cancelled, and timingData stays as it is until continueLoading runs.
\* stale holds what the latest earlier cycle left armed.
LoadImages ==
    /\ phase = "loading"
    /\ cycle < MaxCycles
    /\ cycle' = cycle + 1
    /\ phase' = "scheduled"
    /\ loadType' = imageTypeValue
    /\ reset
    /\ stale' = [pollers |-> [i \in Images |->
                                IF pollers[i].st = "polling" THEN pollers[i]
                                ELSE noPoller],
                 lowResRaf |-> lowResRaf,
                 highRes |-> [i \in Images |->
                                IF img[i].st = "lowres" THEN img[i]
                                ELSE idleImage],
                 finalizeTimer |-> IF finalizeTimer.st = "armed"
                                   THEN finalizeTimer ELSE noTimer]
    /\ img' = [i \in Images |-> idleImage]
    /\ pollers' = [i \in Images |-> noPoller]
    /\ lowResRaf' = [i \in Images |-> noFrame]
    /\ finalizeTimer' = noTimer
    /\ recheckTimer' = noTimer
    /\ monitors' = [i \in Images |-> noMonitor]
    /\ UNCHANGED <<envVars, lastScan, paintEvents, products, instants, now,
                   imageTypeValue, startTime, imageLoadTimes, paintDeltas,
                   viewportDeltas, resultsReady, firstSeen, detections,
                   emitCount, logVars, staleWrites>>

\* A callback of an earlier cycle ran: it is noted when it changed the
\* collections continueLoading created for the current cycle.
noteStale(callback, wrote) ==
    IF wrote /\ phase = "loading" THEN staleWrites \cup {callback}
    ELSE staleWrites

\* A frame of a checkPaint loop an earlier cycle started: it reads and
\* writes this.timingData, the current cycle's.
StaleCheckPaint(i) ==
    /\ stale.pollers[i].st = "polling" /\ now >= stale.pollers[i].due
    /\ \E painted \in BOOLEAN :
         IF painted
         THEN LET item == paintRecord(i, stale.pollers[i].loadTime,
                                      now - startTime,
                                      "requestAnimationFrame",
                                      stale.pollers[i].type)
              IN /\ paintDeltas' = checkPaintDetected(paintDeltas, item)
                 /\ stale' = [stale EXCEPT !.pollers[i] = noPoller]
                 /\ staleWrites' =
                      noteStale("checkPaint", paintDeltas' # paintDeltas)
         ELSE /\ stale' = IF keepsPolling(now - startTime) THEN stale
                          ELSE [stale EXCEPT !.pollers[i] = noPoller]
              /\ UNCHANGED <<paintDeltas, staleWrites>>
    /\ UNCHANGED <<lcsVars, logVars, monitors, cycle, products, instants,
                   now, phase, imageTypeValue, loadType, startTime,
                   imageLoadTimes, viewportDeltas, img, pollers, lowResRaf,
                   finalizeTimer, resultsReady, firstSeen, detections,
                   recheckTimer, emitCount>>

\* The animation frame an earlier cycle's onLowResLoad asked for.
StaleLowResFrame(i) ==
    /\ stale.lowResRaf[i].pending
    /\ paintDeltas' = Append(paintDeltas,
                             paintRecord(i, stale.lowResRaf[i].loadTime,
                                         now - startTime,
                                         "requestAnimationFrame", "low-res"))
    /\ stale' = [stale EXCEPT !.lowResRaf[i] = noFrame]
    /\ staleWrites' = noteStale("lowResFrame", TRUE)
    /\ UNCHANGED <<lcsVars, logVars, monitors, cycle, products, instants,
                   now, phase, imageTypeValue, loadType, startTime,
                   imageLoadTimes, viewportDeltas, img, pollers, lowResRaf,
                   finalizeTimer, resultsReady, firstSeen, detections,
                   recheckTimer, emitCount>>

\* highResImage.onload of an image an earlier cycle created.
StaleHighResLoad(i) ==
    /\ stale.highRes[i].st = "lowres" /\ now >= stale.highRes[i].due
    /\ imageLoadTimes' = Append(imageLoadTimes,
            [index |-> i, time |-> now - startTime, type |-> "high-res"])
    /\ stale' = [stale EXCEPT
                   !.highRes[i] = idleImage,
                   !.pollers[i] =
                       [st |-> "polling", loadTime |-> now - startTime,
                        type |-> "high-res", due |-> now + PollDelay,
                        stopped |-> 0],
                   !.finalizeTimer =
                       IF allHighResLoaded(imageLoadTimes')
                       THEN [st |-> "armed", due |-> now + FinalizeDelay]
                       ELSE @]
    /\ staleWrites' = noteStale("highResLoad", TRUE)
    /\ UNCHANGED <<lcsVars, logVars, monitors, cycle, products, instants,
                   now, phase, imageTypeValue, loadType, startTime,
                   paintDeltas, viewportDeltas, img, pollers, lowResRaf,
                   finalizeTimer, resultsReady, firstSeen, detections,
                   recheckTimer, emitCount>>

\* The finalize timer an earlier cycle armed fires.
StaleFinalizeResults ==
    /\ stale.finalizeTimer.st = "armed" /\ now >= stale.finalizeTimer.due
    /\ stale' = [stale EXCEPT !.finalizeTimer = noTimer]
    /\ finalizeResults
    /\ staleWrites' = noteStale("finalizeResults", TRUE)
    /\ UNCHANGED <<lcsVars, logVars, monitors, cycle, products, instants,
                   now, phase, imageTypeValue, loadType, startTime,
                   imageLoadTimes, viewportDeltas, img, pollers, lowResRaf,
                   finalizeTimer, firstSeen, detections, recheckTimer>>

\* Largest number of direct finalizeResults() calls.
MaxDirectCalls == 1

\* window.imageLoader.finalizeResults() called again, on the global
\* reference the page keeps, after the cycle's own call.
DirectFinalize ==
    /\ finalizeTimer.st = "fired"
    /\ emitCount <= MaxDirectCalls
    /\ finalizeResults
    /\ UNCHANGED <<lcsVars, extraVars, products, instants, now, phase, imageTypeValue, loadType, startTime,
                   imageLoadTimes, viewportDeltas, img, pollers, lowResRaf,
                   finalizeTimer, firstSeen, detections, recheckTimer>>

LcsNext ==
    \/ UpdateLCS
    \/ FilterLargeElements
    \/ TrackerReset

LoaderNext ==
    \/ Tick
    \/ ChangeImageType
    \/ ContinueLoading
    \/ \E i \in Images : StandardLoad(i)
    \/ \E i \in Images : ImageError(i)
    \/ \E i \in Images : LowResLoad(i)
    \/ \E i \in Images : LowResFrame(i)
    \/ \E i \in Images : HighResLoad(i)
    \/ \E i \in Images : CheckPaint(i)
    \/ ElementTiming
    \/ \E i \in Images : Intersection(i)
    \/ ViewportRecheck
    \/ WindowResize
    \/ FinalizeResults

\* The handlers that write the load and paint records.
PaintNext ==
    \/ Tick
    \/ ChangeImageType
    \/ ContinueLoading
    \/ \E i \in Images : StandardLoad(i)
    \/ \E i \in Images : ImageError(i)
    \/ \E i \in Images : LowResLoad(i)
    \/ \E i \in Images : LowResFrame(i)
    \/ \E i \in Images : HighResLoad(i)
    \/ \E i \in Images : CheckPaint(i)
    \/ ElementTiming
    \/ FinalizeResults

\* The handlers that write the viewport records.
ViewportNext ==
    \/ Tick
    \/ ContinueLoading
    \/ \E i \in Images : Intersection(i)
    \/ ViewportRecheck
    \/ WindowResize

Init == LcsInit /\ LoaderInit /\ tracked = ProductPage

\* The tracker alone, on the page of one product in standard mode.
TrackerInit ==
    /\ LcsInit
    /\ LoaderInit
    /\ products = 1
    /\ imageTypeValue = "standard"
    /\ tracked = ProductPage

\* The tracker on the page with a heading.
HeadingInit ==
    /\ LcsInit
    /\ LoaderInit
    /\ products = 1
    /\ imageTypeValue = "standard"
    /\ tracked = HeadingPage

\* The tracker's handlers, the paint-timing observer included.
TrackerNext ==
    \/ RecordPaintEvent
    \/ FilterLargeElements
    \/ TrackerReset
    \/ ObservePaintTiming

\* The tracker on the page of one image under a heading.
BareInit ==
    /\ LcsInit
    /\ LoaderInit
    /\ products = 1
    /\ imageTypeValue = "standard"
    /\ tracked = BarePage

\* The tracker with its observers.
SpecTracker == BareInit /\ [][TrackerNext]_vars

\* The tracker in a browser with any of the three sources of the
\* navigation start, as time passes.
NavigationInit ==
    /\ MetricsInit
    /\ LoaderInit
    /\ products = 1
    /\ imageTypeValue = "standard"
    /\ tracked = BarePage
    /\ timeSource \in TimeSources
    /\ navigationStartTime = getNavigationStartTime

NavigationNext ==
    \/ Tick
    \/ TrackerNext

SpecNavigation == NavigationInit /\ [][NavigationNext]_vars

\* webVitals.lcp under the native observer and the fallback scans, on a
\* page of one product image.
VitalsInit ==
    /\ LcsInit
    /\ LoaderInit
    /\ products = 1
    /\ imageTypeValue = "standard"
    /\ tracked = SinglePage

VitalsNext ==
    \/ ObserveLargestContentfulPaint
    \/ CheckForLargestElement
    \/ TrackerReset

SpecVitals == VitalsInit /\ [][VitalsNext]_vars

\* The fallback scans in a browser that reports no largest-contentful-paint
\* entry, on the page of a product item with two images.
ScanInit ==
    /\ LcsInit
    /\ LoaderInit
    /\ products = 1
    /\ imageTypeValue = "standard"
    /\ tracked = ProductPage

ScanNext ==
    \/ CheckForLargestElement
    \/ ObservePaintTiming
    \/ TrackerReset

SpecScan == ScanInit /\ [][ScanNext]_vars

\* The Large Contentful Set on the page with a heading.
SpecHeading == HeadingInit /\ [][LcsNext]_vars

\* The tracker under every sequence of its operations.
SpecLCS == TrackerInit /\ [][LcsNext]_vars

\* The image loader under the browser's callbacks.
SpecLoader == Init /\ [][LoaderNext]_vars

\* The load and paint records: the viewport handlers neither read nor
\* write them.
SpecPaint == Init /\ [][PaintNext]_vars

\* The viewport records: the load and paint handlers neither read nor
\* write them.
SpecViewport == Init /\ [][ViewportNext]_vars

\* The image loader with finalizeResults also called directly.
SpecDirect == Init /\ [][PaintNext \/ DirectFinalize]_vars

(***************************************************************************)
(* Properties of the Large Contentful Set                                  *)
(***************************************************************************)

AreaSeq(elems) == [i \in 1..Len(elems) |-> elems[i].area]

\* C1: after every updateLCS and filterLargeElements call, every entry of
\* lcs.elements has area >= 0.8 x the largest area in the set.
C1_MembersWithinThreshold ==
    \A i \in 1..Len(lcsElements) :
        lcsElements[i].area * 10 >= 8 * Max(AreasOf(lcsElements))

\* C1 witness: filterLargeElements has just removed a container from a set
\* that keeps members of different areas.
C1_Witness ==
    /\ lcsLastCall.op = "filterLargeElements"
    /\ lcsLastCall.dropped > 0
    /\ \E i, j \in 1..Len(lcsElements) :
          lcsElements[i].area < lcsElements[j].area

\* C2: an updateLCS call whose candidate is strictly larger than every
\* member leaves no member below 0.8 x the candidate's area; {100, 85}
\* followed by 200 becomes exactly {200}.
C2_LargerCandidateRecomputes ==
    [][(/\ lcsLastCall'.op = "updateLCS"
        /\ Len(lcsElements) > 0
        /\ lcsLastCall'.area > Max(AreasOf(lcsElements)))
       => /\ \A i \in 1..Len(lcsElements') :
                lcsElements'[i].area * 10 >= 8 * lcsLastCall'.area
          /\ (AreaSeq(lcsElements) = <<100, 85>> /\ lcsLastCall'.area = 200)
                => AreaSeq(lcsElements') = <<200>>]_vars

\* C2 witness: a candidate of area 200 has displaced both members of a set
\* of two.
C2_Witness ==
    /\ lcsLastCall.op = "updateLCS"
    /\ lcsLastCall.area = 200
    /\ lcsLastCall.dropped = 2
    /\ AreaSeq(lcsElements) = <<200>>

\* C3: on a non-empty set, a candidate with 0.8 x largest <= area <= largest
\* is added, or replaces the entry of its own element, and every other
\* member stays where it is; 100 then 85 gives {100, 85}.
C3_QualifyingCandidateUpserts ==
    \A e \in Elements, time \in PaintTimes :
      \A layout \in Layouts(e) : \A rectArea \in RectAreas(e, layout) :
        LET eff == effective(e, rectArea, layout)
            after == updateLCS(lcsElements, lcsLastPaintTime, e, rectArea,
                               time, layout)[1]
            largest == Max(AreasOf(lcsElements))
            present == \E i \in 1..Len(lcsElements) :
                          lcsElements[i].element = eff.element
            mine == [element |-> eff.element,
                     paintEvent |-> [time |-> time], area |-> eff.area]
        IN (/\ Len(lcsElements) > 0
            /\ eff.area * 10 >= 8 * largest
            /\ eff.area <= largest)
           => /\ Len(after) = Len(lcsElements) + (IF present THEN 0 ELSE 1)
              /\ \A i \in 1..Len(lcsElements) :
                    after[i] = IF lcsElements[i].element = eff.element
                               THEN mine ELSE lcsElements[i]
              /\ ~present => after[Len(after)] = mine
              /\ (AreaSeq(lcsElements) = <<100>> /\ eff.area = 85 /\ ~present)
                    => AreaSeq(after) = <<100, 85>>

\* C3 witness: a candidate of area 85 has joined a member of area 100.
C3_Witness ==
    /\ lcsLastCall.op = "updateLCS"
    /\ lcsLastCall.area = 85
    /\ lcsLastCall.dropped = 0
    /\ AreaSeq(lcsElements) = <<100, 85>>

(***************************************************************************)
(* Properties of the finalized results                                     *)
(***************************************************************************)

\* The records of key k in a list, in order.
recordsOf(deltas, k) ==
    LET hasKey(item) == keyOf(item) = k
    IN SelectSeq(deltas, hasKey)

\* C4: every paint record emitted by finalizeResults has delta < 10000,
\* whatever the detection paths appended before; a candidate with loadTime
\* 1000 and paintTime 12000 is in no finalized list.
C4_FinalizedDeltasBelowLimit ==
    /\ resultsReady.emitted =>
          \A i \in 1..Len(resultsReady.paintDeltas) :
              resultsReady.paintDeltas[i].delta < 10000
    /\ \A method \in {"requestAnimationFrame", "ElementTiming API"} :
          LET candidate == paintRecord(0, 1000, 12000, method, "low-res")
          IN candidate \notin
                Range(finalizedPaintDeltas(Append(paintDeltas, candidate)))

\* C4 witness: results were emitted after the low-res animation frame had
\* pushed a record with a delta of 10000 ms or more.
C4_Witness ==
    /\ resultsReady.emitted
    /\ \E k \in Keys :
          /\ detections[k].anomaly
          /\ detections[k].first.type = "low-res"
          /\ detections[k].first.method = "requestAnimationFrame"
          /\ detections[k].first.delta >= 10000

\* C5: no two records of the list finalizeResults emits have the same
\* (imageIndex, type).
C5_FinalizedKeysDistinct ==
    resultsReady.emitted =>
        \A i, j \in 1..Len(resultsReady.paintDeltas) :
            i # j => keyOf(resultsReady.paintDeltas[i])
                        # keyOf(resultsReady.paintDeltas[j])

\* C5 witness: results were emitted after polling and then element timing
\* had each pushed a record of the same key.
C5_Witness ==
    /\ resultsReady.emitted
    /\ \E k \in Keys :
          /\ detections[k].polling
          /\ detections[k].elementTiming
          /\ detections[k].first.method = "requestAnimationFrame"
          /\ detections[k].first.delta < 10000

\* C6: when polling and element timing have both reported the same key
\* before the results are emitted, each time with a delta < 10000, the
\* emitted list holds for that key the record reported first and no other.
C6_FirstArrivalWins ==
    resultsReady.emitted =>
        \A k \in Keys :
            (/\ detections[k].polling
             /\ detections[k].elementTiming
             /\ ~detections[k].anomaly)
            => recordsOf(resultsReady.paintDeltas, k) = <<detections[k].first>>

\* C6 witness: element timing reported a key first, polling second, and the
\* results were emitted.
C6_Witness ==
    /\ resultsReady.emitted
    /\ \E k \in Keys :
          /\ detections[k].polling
          /\ detections[k].elementTiming
          /\ ~detections[k].anomaly
          /\ detections[k].first.method = "ElementTiming API"

\* C7: viewportDeltas holds at most one record per image, and it is the
\* record of the image's first intersecting observation.
C7_FirstViewportRecordOnly ==
    \A i \in Images :
        LET ofImage(item) == item.imageIndex = i
            records == SelectSeq(viewportDeltas, ofImage)
        IN records = IF firstSeen[i].seen THEN <<firstSeen[i].record>>
                     ELSE <<>>

\* C7 witness: an image first seen by the IntersectionObserver was seen
\* intersecting again later in the cycle.
C7_Witness ==
    \E i \in Images :
        /\ firstSeen[i].seen
        /\ firstSeen[i].later
        /\ firstSeen[i].record.intersectionRatio \in VisibleFractions
        /\ firstSeen[i].record.viewportTime < now - startTime

\* C8: once resultsReady is emitted, the load, paint and viewport
\* collections keep the content and the order they were emitted with.
C8_CollectionsFrozenAfterEmit ==
    resultsReady.emitted =>
        /\ imageLoadTimes = resultsReady.loadTimes
        /\ paintDeltas = resultsReady.paintDeltas
        /\ viewportDeltas = resultsReady.viewportDeltas

\* C9: a finalizeResults call that follows another with no detection
\* callback in between emits the same set of paint records.
C9_FinalizeTwiceSameSet ==
    [][(/\ emitCount >= 1
        /\ emitCount' = emitCount + 1
        /\ paintDeltas = displaySort(resultsReady.paintDeltas))
       => Range(resultsReady'.paintDeltas) = Range(resultsReady.paintDeltas)]_vars

\* C9 witness: finalizeResults ran twice on a list from which the first run
\* had removed a duplicate.
C9_Witness ==
    /\ emitCount = 2
    /\ paintDeltas = displaySort(resultsReady.paintDeltas)
    /\ Len(resultsReady.paintDeltas) > 0
    /\ \E k \in Keys :
          /\ detections[k].polling
          /\ detections[k].elementTiming
          /\ detections[k].first.method = "requestAnimationFrame"

\* C10: a load time is stored as the reading of the page clock (ms since
\* navigation start) at the load event.
C10_LoadTimesRelativeToNavigationStart ==
    [][Len(imageLoadTimes') > Len(imageLoadTimes)
       => imageLoadTimes'[Len(imageLoadTimes')].time = now]_vars

\* C15: whenever the set is non-empty after an updateLCS or
\* filterLargeElements call, lcs.lastPaintTime is the largest
\* paintEvent.time of the entries in the set.
C15_LastPaintTimeIsMaxOfMembers ==
    (Len(lcsElements) > 0 /\ lcsLastCall.op \in {"updateLCS", "filterLargeElements"})
        => lcsLastPaintTime = Max(TimesOf(lcsElements))

\* C14: right after reset() the tracker holds nothing recorded before it:
\* the LCS set is empty with lastPaintTime 0, customLCP is null, webVitals
\* is empty and the paintEvents log is empty.
C14_ResetDiscardsEverything ==
    [][(lcsLastCall'.op = "reset" /\ lcsLastCall.op # "reset")
       => /\ lcsElements' = <<>>
          /\ lcsLastPaintTime' = 0
          /\ customLCP' = NoLCP
          /\ webVitals' = {}
          /\ paintEvents' = 0]_vars

\* C16: when the set holds an IMG entry and a DIV entry,
\* filterLargeElements removes exactly the DIV entries whose area is not
\* above 1.5 x the largest IMG area, and keeps every other entry; a DIV of
\* area 500 next to an IMG of area 300 survives.
C16_FilterRemovesOnlySmallContainers ==
    [][LET isImage(item) == tagName(item.element) = "IMG"
           isDiv(item) == tagName(item.element) = "DIV"
           images == SelectSeq(lcsElements, isImage)
           divs == SelectSeq(lcsElements, isDiv)
           stays(item) ==
               ~(isDiv(item) /\ item.area * 2 <= 3 * Max(AreasOf(images)))
           image300 == [element |-> "img1", paintEvent |-> [time |-> 1],
                        area |-> 300]
           div500 == [element |-> "div1", paintEvent |-> [time |-> 1],
                      area |-> 500]
       IN /\ (/\ lcsLastCall'.op = "filterLargeElements"
              /\ lcsLastCall' # lcsLastCall
              /\ Len(images) > 0
              /\ Len(divs) > 0)
             => lcsElements' = SelectSeq(lcsElements, stays)
          /\ filterLargeElements(<<image300, div500>>, 1)[1]
                = <<image300, div500>>]_vars

\* C17: every updateLCS call that changes the set, the first insertion into
\* an empty set included, emits lcsUpdate.
C17_ChangingUpdateEmitsLcsUpdate ==
    lcsLastCall.op = "updateLCS" => lcsLastCall.lcsUpdate

\* C11: checkPaint keeps polling until the paint is detected or 10000 ms
\* have passed since the image's load time: a poller that gave up without a
\* paint did so at least 10000 ms after the load it watches, and left no
\* record behind.
C11_PollsForTenSecondsAfterLoad ==
    \A i \in Images :
        pollers[i].st = "stopped"
            => pollers[i].stopped - pollers[i].loadTime >= PaintDeltaLimit

\* C19: once an image has fired error instead of load, the completion
\* check never succeeds: the finalize timer is never armed, finalizeResults
\* never runs and resultsReady is never emitted.
C19_ErrorBlocksResults ==
    (\E i \in Images : img[i].st = "error")
        => /\ ~(IF loadType = "standard" THEN allImagesLoaded(imageLoadTimes)
                ELSE allHighResLoaded(imageLoadTimes))
           /\ finalizeTimer.st = "none"
           /\ ~resultsReady.emitted
           /\ emitCount = 0

\* C19 witness: of two images one failed and the other loaded, and the
\* finalize delay has long passed.
C19_Witness ==
    /\ \E i \in Images, j \in Images :
          img[i].st = "error" /\ img[j].st = "loaded"
    /\ now >= 11000
    /\ ~resultsReady.emitted

\* Two products whose loads fire as the cycle starts, and one product whose
\* loads fire in the first half second of the cycle (the high-res load of
\* progressive mode comes 500 ms after the low-res one).
LiveConfigs ==
    {[products |-> 2, instants |-> {500}],
     [products |-> 1, instants |-> {500, 1000}]}

LiveInit == LcsInit /\ LoaderInitOn(LiveConfigs) /\ tracked = ProductPage

\* The load cycle with the event loop's guarantees: time goes on, and a
\* timer that is due fires.
SpecLive ==
    /\ LiveInit
    /\ [][PaintNext \/ TimerTick]_vars
    /\ WF_vars(TimerTick)
    /\ WF_vars(FinalizeResults)

\* C18: once every image has fired load (standard) or its high-res load
\* (LQIP), finalizeResults eventually runs and resultsReady is emitted, and
\* it is never emitted a second time.
C18_AllLoadedLeadsToResults ==
    /\ (\A i \in Images : img[i].st = "loaded") ~> resultsReady.emitted
    /\ [](emitCount <= 1)

\* C18 witness: both images of a two-product page loaded and the results
\* were emitted once.
C18_Witness ==
    /\ products = 2
    /\ \A i \in Images : img[i].st = "loaded"
    /\ resultsReady.emitted
    /\ emitCount = 1

\* C20: the intersection log never holds more than 20 entries and lists
\* the callbacks most recent first, and an intersectionUpdate event carries
\* at most 3 entries, the most recent ones.
C20_IntersectionLogBounded ==
    /\ Len(intersectionLog) <= 20
    /\ \A k \in 1..Len(intersectionLog) :
          intersectionLog[k].seq = intersectionCount - k + 1
    /\ Len(intersectionUpdate) <= 3
    /\ \A k \in 1..Len(intersectionUpdate) :
          intersectionUpdate[k].seq = intersectionCount - k + 1

\* C20 witness: more than 20 callbacks ran, the log is full and the last
\* event carried 3 entries.
C20_Witness ==
    /\ intersectionCount > 20
    /\ Len(intersectionLog) = 20
    /\ Len(intersectionUpdate) = 3

\* The standard load cycle of one product with the tracker's monitor of
\* the product images.
MonitorInit ==
    /\ Init
    /\ products = 1
    /\ imageTypeValue = "standard"

MonitorNext ==
    \/ Tick
    \/ ContinueLoading
    \/ \E i \in Images : StandardLoad(i)
    \/ \E i \in Images : ImageError(i)
    \/ \E i \in Images : CheckPaint(i)
    \/ \E i \in Images : MonitorProductImages(i)
    \/ \E i \in Images : MonitorLoad(i)
    \/ \E i \in Images : CheckImageRender(i)

SpecMonitor == MonitorInit /\ [][MonitorNext]_vars

\* C12: every polling loop stops asking for frames within a budget of
\* 10000 ms: a checkPaint frame run 10000 ms or more into the cycle ends
\* its loop, and checkImageRender never asks for another frame 10000 ms or
\* more after its loop started.
C12_PollingLoopsStopWithinBudget ==
    [][\A i \in Images :
         /\ (/\ pollers[i].st = "polling"
             /\ pollers'[i] # pollers[i]
             /\ now - startTime >= PaintDeltaLimit)
            => pollers'[i].st # "polling"
         /\ monitors'[i].st = "looping"
            => monitors'[i].rescheduled - monitors'[i].since
                  < PaintDeltaLimit]_vars

\* One product, with clock readings a second apart.
CycleConfigs == {[products |-> 1, instants |-> {500, 1500}]}

CycleInit == LcsInit /\ LoaderInitOn(CycleConfigs) /\ tracked = ProductPage

CycleNext ==
    \/ PaintNext
    \/ LoadImages
    \/ \E i \in Images : StaleCheckPaint(i)
    \/ \E i \in Images : StaleLowResFrame(i)
    \/ \E i \in Images : StaleHighResLoad(i)
    \/ StaleFinalizeResults

\* The load cycle run again on the same page.
SpecCycles == CycleInit /\ [][CycleNext]_vars

\* C13: once continueLoading has started a new cycle, no callback armed in
\* an earlier cycle adds a record to, or finalizes, the new cycle's
\* collections.
C13_NoCallbackOfEarlierCycleWrites == staleWrites = {}

\* C26: no two entries of the LCS set refer to the same effective element:
\* a repeated paint event replaces the element's entry, and a container
\* that holds a sized image shares the entry of its largest image.
C26_OneEntryPerEffectiveElement ==
    \A i \in 1..Len(lcsElements) : \A j \in 1..Len(lcsElements) :
        lcsElements[i].element = lcsElements[j].element => i = j

\* C26 witness: the last change was an updateLCS for an element that was
\* the only entry of the set and still is (nothing else was there before
\* or after), and its entry carries the event's area.
C26_Witness ==
    /\ lcsLastCall.op = "updateLCS"
    /\ lcsLastCall.lcsUpdate
    /\ lcsLastCall.dropped = 0
    /\ Len(lcsElements) = 1
    /\ lcsElements[1].element = lcsLastCall.element
    /\ lcsElements[1].area = lcsLastCall.area

\* C27: whenever the set holds a DIV entry and an IMG entry, no DIV entry
\* is larger than 1.5 x the largest IMG entry, so filterLargeElements
\* leaves no DIV entry in the set.
C27_ContainerNeverSurvivesFilter ==
    LET isImage(item) == tagName(item.element) = "IMG"
        isDiv(item) == tagName(item.element) = "DIV"
        images == SelectSeq(lcsElements, isImage)
        divs == SelectSeq(lcsElements, isDiv)
    IN (Len(images) > 0 /\ Len(divs) > 0)
          => /\ \A k \in 1..Len(divs) :
                   divs[k].area * 2 <= 3 * Max(AreasOf(images))
             /\ SelectSeq(filterLargeElements(lcsElements,
                                              lcsLastPaintTime)[1],
                          isDiv) = <<>>

\* C27 witness: a DIV entry sits in the set next to a smaller sized IMG
\* entry.
C27_Witness ==
    \E i \in 1..Len(lcsElements) : \E j \in 1..Len(lcsElements) :
        /\ tagName(lcsElements[i].element) = "DIV"
        /\ tagName(lcsElements[j].element) = "IMG"
        /\ lcsElements[j].area > 0
        /\ lcsElements[i].area > lcsElements[j].area

\* C23: every member of the LCS set has area >= 0.8 x the largest effective
\* area any paint event carried since the last reset.
C23_MembersWithinThresholdOfLargestSeen ==
    \A i \in 1..Len(lcsElements) :
        meetsThreshold(lcsElements[i].area, largestSeen.effectiveArea)

\* C29: once a paint event has been recorded after a reset, customLCP.size
\* is the largest area of the events recorded since, and customLCP
\* describes the first event that had that area.
C29_CustomLCPIsFirstLargest ==
    largestSeen.any
        => /\ customLCP.set
           /\ customLCP.size = largestSeen.area
           /\ customLCP.value = largestSeen.time
           /\ customLCP.element = largestSeen.element

\* C29 witness: the largest area was reached by an earlier event than the
\* one customLCP would describe had a later event of equal area replaced
\* it: the set holds a later entry of the same area for another element.
C29_Witness ==
    /\ largestSeen.any
    /\ customLCP.size > 0
    /\ \E i \in 1..Len(lcsElements) :
          /\ lcsElements[i].area = customLCP.size
          /\ lcsElements[i].paintEvent.time > customLCP.value
          /\ tagName(lcsElements[i].element) # customLCP.element

\* C22: every record of paintDeltas has a load record of the same image in
\* imageLoadTimes whose time is the record's loadTime; an element-timing
\* entry for an image without a load record leaves no paint record.
C22_PaintRecordFollowsLoadRecord ==
    \A k \in 1..Len(paintDeltas) :
        \E j \in 1..Len(imageLoadTimes) :
            /\ imageLoadTimes[j].index = paintDeltas[k].imageIndex
            /\ imageLoadTimes[j].time = paintDeltas[k].loadTime

\* C22 witness: on the page of two products one image has loaded and has a
\* record from each detection method, and the other has not loaded.
C22_Witness ==
    /\ products = 2
    /\ Len(imageLoadTimes) = 1
    /\ \E k \in 1..Len(paintDeltas) :
          paintDeltas[k].method = "ElementTiming API"
    /\ \E k \in 1..Len(paintDeltas) :
          paintDeltas[k].method = "requestAnimationFrame"

\* C24: when an entry of an element-timing batch has a delta above 10000,
\* only that entry is discarded: every other entry of the batch that has a
\* load record and a delta within the limit has its ElementTiming record
\* once the callback is over.
C24_AnomalousEntryAloneDiscarded ==
    phase = "loading" =>
      \A entries \in TimingBatches :
        LET after == elementTimingFrom(entries, 1, imageLoadTimes,
                                       imageTypeValue, paintDeltas,
                                       detections)[1]
            at(k) == findLoadEntry(imageLoadTimes, imageTypeValue,
                                   entries[k].imageIndex)
            delta(k) == entries[k].paintTime - imageLoadTimes[at(k)].time
        IN \A k \in 1..Len(entries) :
              (at(k) # 0 /\ ~exceedsLimit(delta(k)))
                 => hasElementTimingDelta(
                        after, entries[k].imageIndex,
                        typeOrStandard(imageLoadTimes[at(k)]))

\* C28: when polling detected the paint of a key with a delta below 10000
\* before finalizeResults ran, the finalized paintDeltas hold a record of
\* that key.
C28_PolledKeyIsFinalized ==
    resultsReady.emitted =>
      \A key \in Keys :
         detections[key].polling =>
            \E k \in 1..Len(resultsReady.paintDeltas) :
                keyOf(resultsReady.paintDeltas[k]) = key

\* C21: window.navigationStartTime, once captured, keeps its value across
\* every init() and reset() of the tracker, whichever source supplied it.
C21_NavigationStartFixed ==
    [][navigationStartTime' = navigationStartTime]_vars

\* C25: when webVitals.lcp is not set, a pass of checkForLargestElement
\* that has an in-viewport, loaded candidate of positive area sets
\* webVitals.lcp to a candidate of the greatest area among them, whatever
\* the order of the candidates.
C25_FallbackPicksGreatestArea ==
    ~webVitalsLcp.set =>
      \A rect \in Rects, inViewport \in Viewports, loaded \in Loads :
        LET fit == {i \in 1..Len(candidates) :
                      /\ eligible(candidates[i], rect, inViewport, loaded)
                      /\ candidateOf(candidates[i], rect).area > 0}
            v == checkForLargestElement(webVitalsLcp, rect, inViewport,
                                        loaded, 1)
        IN fit # {} =>
             /\ v.set
             /\ \A i \in fit :
                   rect[v.elementId] >= candidateOf(candidates[i], rect).area

\* C30: while webVitals.lcp holds a value with a known element, a step
\* changes it only by writing a native entry whose startTime is at most
\* 30000 (or by reset(), which clears it): no pass of
\* checkForLargestElement and no later native entry changes it.
C30_KnownLcpReplacedOnlyByNativeEntry ==
    [][(webVitalsLcp.set /\ webVitalsLcp.element # "unknown"
         /\ webVitalsLcp' # webVitalsLcp)
        => \/ webVitalsLcp' = NoVital
           \/ /\ webVitalsLcp'.method = "native"
              /\ webVitalsLcp'.value <= LcpTimeLimit
              /\ lastScan' = lastScan]_vars

\* C30: a pass of checkForLargestElement has run on a known native value
\* and the value stands.
C30_Witness ==
    /\ lastScan = "blocked"
    /\ webVitalsLcp.set
    /\ webVitalsLcp.method = "native"
    /\ webVitalsLcp.element # "unknown"

====
